---------------------------- MODULE Spec2Model ----------------------------
(***************************************************************************)
(* A state-machine model of pymbar/confidenceintervals.py:                 *)
(*   OrderReplicates, AndersonDarling and generateConfidenceIntervals.     *)
(*                                                                         *)
(* Floating-point numbers are modelled as exact rationals <<n, d>> in      *)
(* lowest terms with d >= 0; d = 0 encodes the IEEE special values         *)
(* (<<0,0>> is NaN, <<1,0>> is +inf, <<-1,0>> is -inf).  Rounding is not   *)
(* modelled.  The name `np` used by OrderReplicates and AndersonDarling is *)
(* read as the numpy module that the file imports as `numpy`.              *)
(* Transcendental library results (norm.cdf, log, beta.ppf, erf, sqrt) are *)
(* kept as uninterpreted terms over their exact arguments.                 *)
(***************************************************************************)
EXTENDS Integers, Sequences, FiniteSets

(***************************************************************************)
(* Bounds of the model.                                                    *)
(***************************************************************************)
MaxN == 3
MaxK == 3
MaxCells == 4

(***************************************************************************)
(* Program constants.                                                      *)
(***************************************************************************)
nalpha == 40

(***************************************************************************)
(* Floating-point values as rationals.                                     *)
(***************************************************************************)
Abs(x) == IF x < 0 THEN -x ELSE x

Sign(x) == IF x < 0 THEN -1 ELSE IF x > 0 THEN 1 ELSE 0

RECURSIVE GCD(_, _)
GCD(a, b) == IF b = 0 THEN a ELSE GCD(b, a % b)

\* the fraction n / d in lowest terms with a positive denominator; n / 0 by sign
Norm(n, d) ==
    IF d = 0 THEN <<Sign(n), 0>>
    ELSE LET g == GCD(Abs(n), Abs(d))
         IN  <<(Sign(d) * n) \div g, Abs(d) \div g>>

NaN == <<0, 0>>

Zero == <<0, 1>>

One == <<1, 1>>

FromInt(i) == <<i, 1>>

isnan(x) == x = NaN

IsFinite(x) == x[2] # 0

\* x + y (inf + -inf and anything with NaN give NaN)
FAdd(x, y) ==
    IF isnan(x) \/ isnan(y) THEN NaN
    ELSE IF IsFinite(x) /\ IsFinite(y) THEN Norm(x[1] * y[2] + y[1] * x[2], x[2] * y[2])
    ELSE IF IsFinite(x) THEN y
    ELSE IF IsFinite(y) THEN x
    ELSE IF x = y THEN x ELSE NaN

FNeg(x) == <<-x[1], x[2]>>

FSub(x, y) == FAdd(x, FNeg(y))

\* x * y (0 * inf and anything with NaN give NaN)
FMul(x, y) ==
    IF isnan(x) \/ isnan(y) THEN NaN
    ELSE IF IsFinite(x) /\ IsFinite(y) THEN Norm(x[1] * y[1], x[2] * y[2])
    ELSE <<Sign(x[1]) * Sign(y[1]), 0>>

\* x / y (x / 0 is +-inf, 0 / 0 and inf / inf are NaN)
FDiv(x, y) ==
    IF isnan(x) \/ isnan(y) THEN NaN
    ELSE IF IsFinite(x) /\ IsFinite(y) THEN Norm(x[1] * y[2], x[2] * y[1])
    ELSE IF IsFinite(y) THEN <<x[1] * (IF y[1] < 0 THEN -1 ELSE 1), 0>>
    ELSE IF IsFinite(x) THEN Zero
    ELSE NaN

FAbs(x) == <<Abs(x[1]), x[2]>>

\* x <= y as IEEE compares: false whenever either side is NaN
FLeq(x, y) ==
    /\ ~isnan(x)
    /\ ~isnan(y)
    /\ IF IsFinite(x) /\ IsFinite(y) THEN x[1] * y[2] <= y[1] * x[2]
       ELSE IF IsFinite(x) THEN y[1] > 0
       ELSE IF IsFinite(y) THEN x[1] < 0
       ELSE x[1] <= y[1]

\* x == 0 as IEEE compares
FIsZero(x) == x = Zero

(***************************************************************************)
(* Arrays.  An array is a function from its coordinates (index tuples) to  *)
(* floats; a scalar is the array whose only coordinate is <<>>.            *)
(***************************************************************************)
range(n) == 0 .. (n - 1)

Coords(dim, k) ==
    IF dim = 0 THEN {<<>>}
    ELSE IF dim = 1 THEN {<<i>> : i \in range(k)}
    ELSE IF dim = 2 THEN {<<i, j>> : i \in range(k), j \in range(k)}
    ELSE {<<i, j, l>> : i \in range(k), j \in range(k), l \in range(k)}

\* len(np.shape(a)): the length of a's index tuples
ndim(a) == Len(CHOOSE c \in DOMAIN a : TRUE)

zeros(cs) == [c \in cs |-> Zero]

(***************************************************************************)
(* The inputs: ReplicateSets of 1..MaxN replicates of dimensionality 0..3. *)
(* A matrix quantity is a state-pair quantity: its error is antisymmetric  *)
(* and its destimated symmetric, both zero on the diagonal, so it is given *)
(* by its strict lower triangle.  A set holds at most MaxCells free cells. *)
(* Besides the NaN-free sets there are the sets with one NaN written into  *)
(* one field of one replicate at one coordinate.                           *)
(***************************************************************************)
ErrVals == {<<-1, 2>>, <<1, 2>>, <<3, 2>>}

\* a free cell: an error reported with uncertainty 1, an error reported with
\* uncertainty 0, or an error reported with uncertainty 2
Cell ==
    {[e |-> x, s |-> One] : x \in ErrVals}
        \cup {[e |-> <<1, 2>>, s |-> Zero], [e |-> <<3, 2>>, s |-> <<2, 1>>]}

TruthValue == <<5, 1>>

FreeCoords(dim, k) ==
    IF dim = 2 THEN {c \in Coords(2, k) : c[2] < c[1]} ELSE Coords(dim, k)

Sizes ==
    {sz \in (0 .. 3) \X (1 .. MaxK) \X (1 .. MaxN) :
        /\ sz[1] = 0 => sz[2] = 1
        /\ sz[3] * Cardinality(FreeCoords(sz[1], sz[2])) <= MaxCells}

\* the full error and destimated arrays of a replicate given by its free cells
ErrorOf(dim, k, cells) ==
    [c \in Coords(dim, k) |->
        IF dim # 2 THEN cells[c].e
        ELSE IF c[2] < c[1] THEN cells[c].e
        ELSE IF c[1] < c[2] THEN FNeg(cells[<<c[2], c[1]>>].e)
        ELSE Zero]

DestimatedOf(dim, k, cells) ==
    [c \in Coords(dim, k) |->
        IF dim # 2 THEN cells[c].s
        ELSE IF c[2] < c[1] THEN cells[c].s
        ELSE IF c[1] < c[2] THEN cells[<<c[2], c[1]>>].s
        ELSE Zero]

Replicate(err, dest) ==
    [estimated  |-> [c \in DOMAIN err |-> FAdd(TruthValue, err[c])],
     error      |-> err,
     destimated |-> dest]

CleanSets(dim, k, n) ==
    {[r \in 1 .. n |-> Replicate(ErrorOf(dim, k, f[r]), DestimatedOf(dim, k, f[r]))] :
        f \in [1 .. n -> [FreeCoords(dim, k) -> Cell]]}

UniformSets(dim, k, n) ==
    {[r \in 1 .. n |->
        Replicate(ErrorOf(dim, k, [c \in FreeCoords(dim, k) |-> cell]),
                  DestimatedOf(dim, k, [c \in FreeCoords(dim, k) |-> cell]))] :
        cell \in Cell}

WithNaN(rs, r, c, field) ==
    IF field = "error"
    THEN [rs EXCEPT ![r] = Replicate([rs[r].error EXCEPT ![c] = NaN], rs[r].destimated)]
    ELSE [rs EXCEPT ![r].destimated[c] = NaN]

NaNSets(dim, k, n) ==
    {WithNaN(rs, r, c, field) :
        rs \in UniformSets(dim, k, n), r \in 1 .. n, c \in Coords(dim, k),
        field \in {"error", "destimated"}}

ReplicateSets(dim, k, n) == CleanSets(dim, k, n) \cup NaNSets(dim, k, n)

(***************************************************************************)
(* State.                                                                  *)
(***************************************************************************)
VARIABLES
    entry,        \* the function the caller invoked
    K,            \* its argument K
    replicates,   \* its argument replicates: the caller's arrays, as they are now
    called_with,  \* the value of replicates when the call started
    boxed,        \* whether replicates[0]['destimated'] is an ndarray (mutable in
                  \* place) or an immutable float; only a scalar can be the latter
    pc,           \* position in the code
    sigma, zerosigma, yi, sortedyi,             \* locals of OrderReplicates
    ad_zerosigma, sum, A2,                      \* locals of AndersonDarling
    counters,     \* a and b (or the raise) at the end of each pass of the alpha loop
    Pobs, Plow, Phigh, dPobs,                   \* locals of generateConfidenceIntervals
    vals, vals_error, vals_std, summary,
    stdout,       \* what the call printed about an invalid replicate
    outcome       \* "running", "returned" or the exception raised

or_vars == <<sigma, zerosigma, yi, sortedyi>>

ad_vars == <<ad_zerosigma, sum, A2>>

ci_vars == <<counters, Pobs, Plow, Phigh, dPobs, vals, vals_error, vals_std, summary, stdout>>

arg_vars == <<entry, K, called_with, boxed>>

vars == <<entry, K, replicates, called_with, boxed, pc, sigma, zerosigma, yi, sortedyi,
          ad_zerosigma, sum, A2, counters, Pobs, Plow, Phigh, dPobs, vals, vals_error, vals_std,
          summary, stdout, outcome>>

\* the value of a local that is not bound yet
None == <<>>

N == Len(replicates)

AllCoords == DOMAIN replicates[1].destimated

\* the state when a caller invokes one of the functions named in entries with a
\* quantity whose dimensionality is in dims
Called(entries, dims) ==
    /\ entry \in entries
    /\ \E sz \in Sizes :
          /\ sz[1] \in dims
          /\ K = sz[2]
          /\ replicates \in ReplicateSets(sz[1], sz[2], sz[3])
          /\ boxed \in IF sz[1] = 0 /\ entry # "generateConfidenceIntervals"
                       THEN BOOLEAN ELSE {TRUE}
    /\ called_with = replicates
    /\ pc = "call"
    /\ sigma = None /\ zerosigma = None /\ yi = None /\ sortedyi = None
    /\ ad_zerosigma = None /\ sum = None /\ A2 = None
    /\ counters = None /\ Pobs = None /\ Plow = None /\ Phigh = None /\ dPobs = None
    /\ vals = None /\ vals_error = None /\ vals_std = None /\ summary = None
    /\ stdout = <<>>
    /\ outcome = "running"

(***************************************************************************)
(* OrderReplicates(replicates, K)                                          *)
(***************************************************************************)
\* a += m, a -= m for a float array a and a boolean array m (True is 1)
AddMask(a, m) == [c \in DOMAIN a |-> FAdd(a[c], IF m[c] THEN One ELSE Zero)]

\* a faulty variant of SubMask: the correction is never taken back
SubMaskSkipped(a, m) == a

SubMask(a, m) == [c \in DOMAIN a |-> FSub(a[c], IF m[c] THEN One ELSE Zero)]

\* an in-place update of sigma: sigma names the caller's array when that is an ndarray
StoreSigma(new) ==
    /\ sigma' = new
    /\ replicates' = IF boxed THEN [replicates EXCEPT ![1].destimated = new]
                     ELSE replicates

\* lines 36-41: sigma = replicates[0]['destimated']; zerosigma = (sigma == 0);
\* sigma += sigmacorr
OR_Begin ==
    /\ pc \in {"call", "ad_call"}
    /\ pc = "call" => entry = "OrderReplicates"
    /\ zerosigma' = [c \in AllCoords |-> FIsZero(replicates[1].destimated[c])]
    /\ StoreSigma(AddMask(replicates[1].destimated, zerosigma'))
    /\ pc' = "or_divide"
    /\ UNCHANGED <<arg_vars, yi, sortedyi, ad_vars, ci_vars, outcome>>

\* a faulty variant of Normalized: each replicate divided by its own destimated
NormalizedByOwn(replicate, sig) ==
    [c \in DOMAIN sig |-> FDiv(replicate.error[c], replicate.destimated[c])]

\* replicate['error'] / sigma
Normalized(replicate, sig) == [c \in DOMAIN sig |-> FDiv(replicate.error[c], sig[c])]

\* lines 43-46: yi.append(replicate['error']/sigma) for every replicate
OR_Divide ==
    /\ pc = "or_divide"
    /\ yi' = [r \in 1 .. N |-> Normalized(replicates[r], sigma)]
    /\ pc' = "or_sort"
    /\ UNCHANGED <<arg_vars, replicates, sigma, zerosigma, sortedyi, ad_vars, ci_vars, outcome>>

\* x goes before y in np.sort's order: ascending, NaN last
Before(x, y) == ~isnan(x) /\ (isnan(y) \/ FLeq(x, y))

RECURSIVE Insert(_, _)
Insert(x, s) ==
    IF s = <<>> THEN <<x>>
    ELSE IF Before(x, Head(s)) THEN <<x>> \o s
    ELSE <<Head(s)>> \o Insert(x, Tail(s))

RECURSIVE SortSeq(_)
SortSeq(s) == IF s = <<>> THEN <<>> ELSE Insert(Head(s), SortSeq(Tail(s)))

\* a faulty variant of np_sort: the values left in replicate order
np_sort_skipped(s) == s

\* np.sort of a one-dimensional array
np_sort(s) == SortSeq(s)

\* yiarray[:, c]
Column(a, c) == [r \in DOMAIN a |-> a[r][c]]

\* the coordinates the sorting loops of lines 48-56 visit
SortedCoords(dims, k) ==
    IF dims \in {0, 1, 2} THEN Coords(dims, k) ELSE {}

\* lines 47-56: sortedyi = zeros; sortedyi[:, c] = np.sort(yiarray[:, c])
OR_Sort ==
    /\ pc = "or_sort"
    /\ sortedyi' =
          [r \in 1 .. N |->
              [c \in AllCoords |->
                  IF c \in SortedCoords(ndim(replicates[1].destimated), K)
                  THEN np_sort(Column(yi, c))[r]
                  ELSE Zero]]
    /\ pc' = "or_restore"
    /\ UNCHANGED <<arg_vars, replicates, sigma, zerosigma, yi, ad_vars, ci_vars, outcome>>

\* lines 58-60: sigma -= sigmacorr; return sortedyi
OR_Return ==
    /\ pc = "or_restore"
    /\ StoreSigma(SubMask(sigma, zerosigma))
    /\ IF entry = "OrderReplicates"
       THEN pc' = "done" /\ outcome' = "returned"
       ELSE pc' = "ad_mask" /\ outcome' = outcome
    /\ UNCHANGED <<arg_vars, zerosigma, yi, sortedyi, ad_vars, ci_vars>>

(***************************************************************************)
(* AndersonDarling(replicates, K)                                          *)
(***************************************************************************)
\* line 90: sortedyi = OrderReplicates(replicates, K)
AD_Call ==
    /\ pc = "call"
    /\ entry = "AndersonDarling"
    /\ pc' = "ad_call"
    /\ UNCHANGED <<arg_vars, replicates, or_vars, ad_vars, ci_vars, outcome>>

\* line 91: zerosigma = (replicates[0]['destimated'] == 0)
AD_Mask ==
    /\ pc = "ad_mask"
    /\ ad_zerosigma' = [c \in AllCoords |-> FIsZero(replicates[1].destimated[c])]
    /\ pc' = "ad_sum"
    /\ UNCHANGED <<arg_vars, replicates, or_vars, sum, A2, ci_vars, outcome>>

\* line 98: the integer factors of np.log(cdfi) and of np.log(1-cdfi) at loop index i
LogCdfWeight(i) == 2 * i - 1

LogSfWeight(n, i) == 2 * (n - i) + 1

\* line 98, one coordinate: (2*i-1)*log(cdf(y)) + (2*(N-i)+1)*log(1-cdf(y))
Term(n, i, y) == [w_cdf |-> LogCdfWeight(i), w_sf |-> LogSfWeight(n, i), y |-> y]

\* lines 93-98: sum = zeros(dims); for i in range(N): sum += ...
\* sum[c] is the sequence of the terms added at c, in loop order
AD_Sum ==
    /\ pc = "ad_sum"
    /\ sum' = [c \in AllCoords |-> [i \in 1 .. N |-> Term(N, i - 1, sortedyi[i][c])]]
    /\ pc' = "ad_finish"
    /\ UNCHANGED <<arg_vars, replicates, or_vars, ad_zerosigma, A2, ci_vars, outcome>>

\* a statistic: the number val, or -n - (the sum of terms)/n
Const(x) == [kind |-> "const", val |-> x, n |-> 0, terms |-> <<>>]

Statistic(n, terms) == [kind |-> "A2", val |-> Zero, n |-> n, terms |-> terms]

\* line 100: A2[zerosigma] = 0
Masked(a, mask) == [c \in DOMAIN a |-> IF mask[c] THEN Const(Zero) ELSE a[c]]

\* lines 99-101: A2 = -N - sum/N; A2[zerosigma] = 0; return A2.  Of a scalar
\* quantity sum/N is a numpy float, which supports no item assignment.
AD_Finish ==
    /\ pc = "ad_finish"
    /\ IF ndim(replicates[1].destimated) = 0
       THEN /\ A2' = Statistic(N, sum[<<>>])
            /\ outcome' = "TypeError"
       ELSE /\ A2' = Masked([c \in AllCoords |-> Statistic(N, sum[c])], ad_zerosigma)
            /\ outcome' = "returned"
    /\ pc' = "done"
    /\ UNCHANGED <<arg_vars, replicates, or_vars, ad_zerosigma, sum, ci_vars>>

(***************************************************************************)
(* generateConfidenceIntervals(replicates, K)                              *)
(***************************************************************************)
min_alpha == <<1, 10>>

max_alpha == <<4, 1>>

\* line 202: numpy.linspace(min_alpha, max_alpha, num=nalpha)[m]
alpha_values(m) ==
    FAdd(min_alpha,
         FMul(FromInt(m), FDiv(FSub(max_alpha, min_alpha), FromInt(nalpha - 1))))

\* line 208: dim = len(numpy.shape(replicates[0]['estimated']))
dim == ndim(replicates[1].estimated)

\* for i in range(0, K): for j in range(0, i), as the sequence of the <<i, j>> visited
RECURSIVE LowerPairs(_, _, _)
LowerPairs(i, j, k) ==
    IF i >= k THEN <<>>
    ELSE IF j >= i THEN LowerPairs(i + 1, 0, k)
    ELSE <<(<<i, j>>)>> \o LowerPairs(i, j + 1, k)

\* a faulty variant of TestedCoords: the whole matrix visited, not its lower triangle
TestedCoordsFull(d, k) ==
    IF d = 0 THEN <<(<<>>)>>
    ELSE IF d = 1 THEN [i \in 1 .. k |-> <<i - 1>>]
    ELSE IF d = 2 THEN [n \in 1 .. (k * k) |-> <<(n - 1) \div k, (n - 1) % k>>]
    ELSE <<>>

\* lines 220-263: the coordinates tested in a replicate, in the order of the loops
TestedCoords(d, k) ==
    IF d = 0 THEN <<(<<>>)>>
    ELSE IF d = 1 THEN [i \in 1 .. k |-> <<i - 1>>]
    ELSE IF d = 2 THEN LowerPairs(0, 0, k)
    ELSE <<>>

\* a faulty variant of Covered: the comparison turned around
CoveredReversed(replicate, c, alpha) ==
    FLeq(FMul(alpha, replicate.destimated[c]), FAbs(replicate.error[c]))

\* lines 229, 244, 260: abs(replicate['error'][c]) <= alpha * replicate['destimated'][c]
Covered(replicate, c, alpha) ==
    FLeq(FAbs(replicate.error[c]), FMul(alpha, replicate.destimated[c]))

\* lines 221, 236, 252
Invalid(replicate, c) == isnan(replicate.error[c]) \/ isnan(replicate.destimated[c])

\* lines 217-263 from replicate r (1-based), position idx of the tested coordinates,
\* with the counters at a and b: the counters at the end, or the replicate that raised
RECURSIVE Tally(_, _, _, _, _, _)
Tally(r, idx, cs, alpha, a, b) ==
    IF r > N THEN [raised |-> FALSE, replicate_index |-> N, a |-> a, b |-> b]
    ELSE IF idx > Len(cs) THEN Tally(r + 1, 1, cs, alpha, a, b)
    ELSE IF Invalid(replicates[r], cs[idx])
         THEN [raised |-> TRUE, replicate_index |-> r - 1, a |-> a, b |-> b]
    ELSE IF Covered(replicates[r], cs[idx], alpha)
         THEN Tally(r, idx + 1, cs, alpha, FAdd(a, One), b)
    ELSE Tally(r, idx + 1, cs, alpha, a, FAdd(b, One))

\* lines 213-263 for one alpha: a = 1.0, b = 1.0, then the loops
Counters(alpha) == Tally(1, 1, TestedCoords(dim, K), alpha, One, One)

\* lines 209-263: the counters at the end of each of the first n passes of the loop
\* over alpha_index
RECURSIVE AlphaLoop(_)
AlphaLoop(n) ==
    IF n = 0 THEN <<>> ELSE Append(AlphaLoop(n - 1), Counters(alpha_values(n - 1)))

\* uninterpreted library results
BetaPpf(q, a, b) == [q |-> q, a |-> a, b |-> b]

Sqrt(x) == [sqrt_of |-> x]

\* line 268: numpy.sqrt(a * b / ((a + b) ** 2 * (a + b + 1))), the radicand kept as
\* the integer fraction it is for the whole numbers a and b
StdErr(a, b) ==
    Sqrt(<<a[1] * b[1], (a[1] + b[1]) * (a[1] + b[1]) * (a[1] + b[1] + 1)>>)

\* lines 199-268: the sweep over alpha.  The first pass (alpha_index 0) raises at the
\* first tested value that is NaN, after printing the replicate; the validity test
\* does not depend on alpha, so a later pass raises only if the first did.
CI_Sweep ==
    /\ pc = "call"
    /\ entry = "generateConfidenceIntervals"
    /\ counters' = AlphaLoop(nalpha)
    /\ IF counters'[1].raised
       THEN /\ stdout' = <<[replicate   |-> counters'[1].replicate_index,
                            error       |-> replicates[counters'[1].replicate_index + 1].error,
                            destimated  |-> replicates[counters'[1].replicate_index + 1].destimated]>>
            /\ outcome' = "isnan"
            /\ pc' = "done"
            /\ UNCHANGED <<Pobs, Plow, Phigh, dPobs>>
       ELSE /\ Pobs' = [m \in 1 .. nalpha |->
                          FDiv(counters'[m].a, FAdd(counters'[m].a, counters'[m].b))]
            /\ Plow' = [m \in 1 .. nalpha |->
                          BetaPpf(<<25, 1000>>, counters'[m].a, counters'[m].b)]
            /\ Phigh' = [m \in 1 .. nalpha |->
                          BetaPpf(<<975, 1000>>, counters'[m].a, counters'[m].b)]
            /\ dPobs' = [m \in 1 .. nalpha |-> StdErr(counters'[m].a, counters'[m].b)]
            /\ pc' = "ci_summary"
            /\ UNCHANGED <<stdout, outcome>>
    /\ UNCHANGED <<arg_vars, replicates, or_vars, ad_vars, vals, vals_error, vals_std, summary>>

RECURSIVE SumSeq(_)
SumSeq(s) == IF s = <<>> THEN Zero ELSE FAdd(Head(s), SumSeq(Tail(s)))

\* numpy.average(a, axis=0)
average(a) == [c \in DOMAIN a[1] |-> FDiv(SumSeq(Column(a, c)), FromInt(Len(a)))]

\* a ** 2, elementwise
squared(a) == [r \in DOMAIN a |-> [c \in DOMAIN a[r] |-> FMul(a[r][c], a[r][c])]]

\* numpy.std(a, axis=0)
std(a) ==
    LET mean == average(a)
        dev  == [r \in DOMAIN a |-> [c \in DOMAIN a[r] |-> FSub(a[r][c], mean[c])]]
    IN  [c \in DOMAIN a[1] |-> Sqrt(average(squared(dev))[c])]

\* x ** (1.0 / 2.0), elementwise
root(a) == [c \in DOMAIN a |-> Sqrt(a[c])]

\* lines 293-309: whether the loops assign row rindex of vals, vals_error, vals_std
RowAssigned(d, k) ==
    \/ d = 0
    \/ d = 1 /\ range(k) # {}
    \/ d = 2 /\ LowerPairs(0, 0, k) # <<>>

\* lines 270-349: the per-replicate arrays and the summary statistics, which are
\* printed; return alpha_values, Pobs, Plow, Phigh, dPobs, Pnorm.  No branch creates
\* vals for another dimensionality, and line 311 then reads an unbound local.
CI_Summary ==
    /\ pc = "ci_summary"
    /\ IF dim \in {0, 1, 2}
       THEN /\ vals' = [r \in 1 .. N |->
                          IF RowAssigned(dim, K) THEN replicates[r].estimated
                          ELSE zeros(Coords(dim, K))]
            /\ vals_error' = [r \in 1 .. N |->
                          IF RowAssigned(dim, K) THEN replicates[r].error
                          ELSE zeros(Coords(dim, K))]
            /\ vals_std' = [r \in 1 .. N |->
                          IF RowAssigned(dim, K) THEN replicates[r].destimated
                          ELSE zeros(Coords(dim, K))]
            /\ summary' = [aveval      |-> average(vals'),
                           standarddev |-> std(vals'),
                           bias        |-> average(vals_error'),
                           aveerr      |-> average(vals_error'),
                           rms_error   |-> root(average(squared(vals_error'))),
                           ave_std     |-> root(average(squared(vals_std')))]
            /\ outcome' = "returned"
       ELSE /\ outcome' = "UnboundLocalError"
            /\ UNCHANGED <<vals, vals_error, vals_std, summary>>
    /\ pc' = "done"
    /\ UNCHANGED <<arg_vars, replicates, or_vars, ad_vars, counters, Pobs, Plow, Phigh, dPobs, stdout>>

(***************************************************************************)
(* Specifications: calls of OrderReplicates and of AndersonDarling, and    *)
(* calls of generateConfidenceIntervals.                                   *)
(***************************************************************************)
InitOrder == Called({"OrderReplicates", "AndersonDarling"}, 0 .. 3)

NextOrder == OR_Begin \/ OR_Divide \/ OR_Sort \/ OR_Return
             \/ AD_Call \/ AD_Mask \/ AD_Sum \/ AD_Finish

SpecOrder == InitOrder /\ [][NextOrder]_vars

InitCoverage == Called({"generateConfidenceIntervals"}, 0 .. 3)

NextCoverage == CI_Sweep \/ CI_Summary

SpecCoverage == InitCoverage /\ [][NextCoverage]_vars

(***************************************************************************)
(* Properties.                                                             *)
(***************************************************************************)
OR == "OrderReplicates"

AD == "AndersonDarling"

CI == "generateConfidenceIntervals"

\* the dimensionality of the quantity the call was given
Dimensionality == ndim(called_with[1].destimated)

HasNaN(rs) ==
    \E r \in DOMAIN rs : \E c \in DOMAIN rs[r].error :
        isnan(rs[r].error[c]) \/ isnan(rs[r].destimated[c])

\* the coordinates the coverage analysis is specified to count
InScope(d, k) ==
    IF d = 2 THEN {c \in Coords(2, k) : c[2] < c[1]} ELSE Coords(d, k)

\* the (replicate, in-scope coordinate) pairs of the call's input
Pairs == (1 .. Len(called_with)) \X InScope(Dimensionality, K)

Passes(alpha) ==
    {p \in Pairs :
        FLeq(FAbs(called_with[p[1]].error[p[2]]),
             FMul(alpha, called_with[p[1]].destimated[p[2]]))}

\* generateConfidenceIntervals has returned its arrays
Returned == entry = CI /\ outcome = "returned"

\* C1: for a NaN-free ReplicateSet of dimensionality 0, 1 or 2 and every alpha of
\* the grid, the counters end at a = 1 + (number of (replicate, in-scope coordinate)
\* pairs with |error| <= alpha * destimated) and b = 1 + (number of in-scope pairs
\* failing the test), and Pobs = a / (a + b); in-scope are the single value, the K
\* entries, or the strict lower triangle.
C1_CoverageCounters ==
    (Returned /\ ~HasNaN(called_with) /\ Dimensionality \in {0, 1, 2}) =>
        \A m \in 1 .. nalpha :
            LET alpha == alpha_values(m - 1)
                pass  == Cardinality(Passes(alpha))
                fail  == Cardinality(Pairs \ Passes(alpha))
            IN  /\ ~counters[m].raised
                /\ counters[m].a = FromInt(1 + pass)
                /\ counters[m].b = FromInt(1 + fail)
                /\ Pobs[m] = Norm(1 + pass, 2 + pass + fail)

\* the scalar scenario: destimated 1, errors 0.5, -0.5, 1.5; at alpha = 2.0
\* a = 4, b = 1, Pobs = 0.8
C1_Witness ==
    /\ entry = CI /\ outcome = "returned"
    /\ Dimensionality = 0 /\ Len(called_with) = 3
    /\ \A r \in 1 .. 3 : called_with[r].destimated[<<>>] = One
    /\ called_with[1].error[<<>>] = <<1, 2>>
    /\ called_with[2].error[<<>>] = <<-1, 2>>
    /\ called_with[3].error[<<>>] = <<3, 2>>
    /\ alpha_values(19) = <<2, 1>>
    /\ counters[20].a = <<4, 1>> /\ counters[20].b = <<1, 1>>
    /\ Pobs[20] = <<4, 5>>

\* C2: a NaN in any replicate's error or destimated, at any coordinate, makes
\* generateConfidenceIntervals fail: it never returns normally and computes no
\* summary statistic.
C2_NaNAlwaysFails ==
    (entry = CI /\ HasNaN(called_with)) =>
        /\ outcome # "returned"
        /\ summary = None

\* C3 as stated: the array OrderReplicates returns is sorted ascending along the
\* replicate axis at every coordinate, out[i] <= out[i+1].
C3_SortedAscending ==
    (entry = OR /\ outcome = "returned" /\ Dimensionality \in {0, 1, 2}) =>
        \A c \in AllCoords : \A i \in 1 .. (N - 1) :
            FLeq(sortedyi[i][c], sortedyi[i + 1][c])

\* C3 amended: at every coordinate the returned values are ascending with the NaNs
\* last: out[i] <= out[i+1], or out[i+1] is NaN.
C3_SortedAscendingNaNLast ==
    (entry = OR /\ outcome = "returned" /\ Dimensionality \in {0, 1, 2}) =>
        \A c \in AllCoords : \A i \in 1 .. (N - 1) :
            FLeq(sortedyi[i][c], sortedyi[i + 1][c]) \/ isnan(sortedyi[i + 1][c])

\* a matrix quantity whose replicates come out in another order than they went in
C3_Witness ==
    /\ entry = OR /\ outcome = "returned"
    /\ Dimensionality = 2 /\ N >= 2
    /\ ~HasNaN(called_with)
    /\ \E c \in AllCoords : Column(sortedyi, c) # Column(yi, c)

\* C4: for a NaN-free ReplicateSet (destimated >= 0) the observed coverage is
\* non-decreasing over the alpha grid: the success count never decreases and a + b
\* is the same for every alpha.
C4_PobsMonotone ==
    (Returned /\ ~HasNaN(called_with)) =>
        \A m \in 1 .. (nalpha - 1) :
            /\ FLeq(Pobs[m], Pobs[m + 1])
            /\ FLeq(counters[m].a, counters[m + 1].a)
            /\ FAdd(counters[m].a, counters[m].b) = FAdd(counters[m + 1].a, counters[m + 1].b)

\* a vector quantity whose coverage rises over the grid
C4_Witness ==
    /\ entry = CI /\ outcome = "returned"
    /\ Dimensionality = 1
    /\ ~HasNaN(called_with)
    /\ Pobs[1] # Pobs[nalpha]
    /\ FLeq(Pobs[1], Pobs[nalpha])

C6_InputNeverMutated ==
    entry = OR => replicates = called_with

\* C7: the weights applied to the r-th smallest normalized value (r = 1..N) are
\* 2r - 1 on ln(cdf) and 2(N - r) + 1 on ln(1 - cdf).
C7_ClassicalWeights ==
    (entry = AD /\ sum # None) =>
        \A c \in AllCoords : \A r \in 1 .. N :
            /\ sum[c][r].w_cdf = 2 * r - 1
            /\ sum[c][r].w_sf = 2 * (N - r) + 1

\* C8: a coordinate whose destimated is zero in replicate 0 is excluded from the
\* coverage counting: for every alpha the tests at it add to neither a nor b.
C8_ZeroSigmaExcluded ==
    (Returned /\ ~HasNaN(called_with) /\ Dimensionality \in {0, 1, 2}) =>
        \A m \in 1 .. nalpha :
            FAdd(counters[m].a, counters[m].b) =
                FromInt(2 + Cardinality({p \in Pairs :
                                            called_with[1].destimated[p[2]] # Zero}))

\* C9: for a quantity of dimensionality other than 0, 1 or 2 OrderReplicates fails
\* and returns no array.
C9_OtherDimensionalityFails ==
    (entry = OR /\ Dimensionality \notin {0, 1, 2}) =>
        /\ outcome # "returned"
        /\ sortedyi = None

Occurrences(s, x) == Cardinality({i \in DOMAIN s : s[i] = x})

SameMultiset(s, t) ==
    /\ DOMAIN s = DOMAIN t
    /\ \A i \in DOMAIN s : Occurrences(s, s[i]) = Occurrences(t, s[i])

\* the scale of coordinate c: replicate 0's destimated, or 1 where that is zero
Scale(c) ==
    IF called_with[1].destimated[c] = Zero THEN One ELSE called_with[1].destimated[c]

\* C10: for a quantity of dimensionality 0, 1 or 2, at every coordinate c the N
\* values returned are a rearrangement of error_r[c] / s[c] over the replicates r,
\* s[c] being replicate 0's destimated[c], or 1 where that is zero.
C10_RearrangementPerCoordinate ==
    (entry = OR /\ outcome = "returned" /\ Dimensionality \in {0, 1, 2}) =>
        \A c \in AllCoords :
            SameMultiset(Column(sortedyi, c),
                         [r \in 1 .. N |-> FDiv(called_with[r].error[c], Scale(c))])

\* a vector quantity with a zero-sigma coordinate, whose second replicate reports
\* another destimated than replicate 0 at some coordinate
C10_Witness ==
    /\ entry = OR /\ outcome = "returned"
    /\ Dimensionality = 1 /\ K = 2 /\ N = 2
    /\ called_with[1].destimated[<<0>>] = Zero
    /\ called_with[2].destimated[<<0>>] = One
    /\ called_with[1].destimated[<<1>>] = <<2, 1>>
    /\ called_with[2].destimated[<<1>>] = One
    /\ Column(sortedyi, <<1>>) # Column(yi, <<1>>)

=============================================================================
